---- MODULE Spec2Model ----
(***************************************************************************)
(* A model of btrust's bencode decoder and torrent metainfo projector      *)
(* (src/src/main.rs).  Byte slices are sequences of byte values 0..255;    *)
(* the decoder functions are operators computed the way the Rust code      *)
(* computes them, returning Ok(rest, value), Err(message) or, where the    *)
(* Rust code would abort (index or slice out of range, unwrap of an Err,   *)
(* arithmetic overflow in a debug build), Panic(message).                  *)
(***************************************************************************)
EXTENDS Integers, Sequences, FiniteSets, TLC

VARIABLES data, toks, build, pc, result

vars == <<data, toks, build, pc, result>>

----------------------------------------------------------------------------
(* Bounds of the model. *)

\* usize and i64 are modelled WordBits wide (64 in the build).
WordBits == 16
\* Tokens fed to the decoder harness.
MaxTokens == 5
\* Elements of a generated list.
MaxElems == 3

UsizeMax == 2 ^ WordBits - 1
I64Max == 2 ^ (WordBits - 1) - 1
I64MinAbs == 2 ^ (WordBits - 1)

----------------------------------------------------------------------------
(* Byte literals of the grammar. *)

b_i == 105
b_l == 108
b_d == 100
b_e == 101
b_colon == 58
b_0 == 48
b_9 == 57
b_plus == 43
b_minus == 45

\* The builds whose behaviour differs on arithmetic overflow.
Builds == {"debug", "release"}

----------------------------------------------------------------------------
(* Result<_, String>, plus the abort outcome. *)

Ok(rest, value) == [tag |-> "Ok", rest |-> rest, value |-> value]
Err(msg) == [tag |-> "Err", msg |-> msg]
Panic(msg) == [tag |-> "Panic", msg |-> msg]

(* Option<T>. *)
Some(v) == [some |-> TRUE, v |-> v]
None == [some |-> FALSE]

(* enum BencodeValue and its four structs. *)
BString(content) == [type |-> "String", content |-> content]
BInteger(value) == [type |-> "Integer", value |-> value]
BList(items) == [type |-> "List", items |-> items]
BDictionary(dict) == [type |-> "Dictionary", dict |-> dict]

\* HashMap::new
EmptyMap == [k \in {} |-> 0]

\* HashMap::insert: a repeated key keeps one entry, with the new value.
MapInsert(map, key, value) ==
    [k \in (DOMAIN map) \cup {key} |-> IF k = key THEN value ELSE map[k]]

\* HashMap::get
MapGet(map, key) == IF key \in DOMAIN map THEN Some(map[key]) ELSE None

\* &data[from..] with a 0-based start index, from <= data.len()
SliceFrom(s, from) == SubSeq(s, from + 1, Len(s))

----------------------------------------------------------------------------
(* Standard library conversions the code calls. *)

IsCont(b) == b >= 128 /\ b <= 191

RECURSIVE IsUtf8(_)
\* String::from_utf8(..).is_ok(): the bytes are well-formed UTF-8.
IsUtf8(s) ==
    IF Len(s) = 0 THEN TRUE
    ELSE LET b == s[1]
             n == Len(s)
             c2 == IF n >= 2 THEN s[2] ELSE 0
             c3 == IF n >= 3 THEN s[3] ELSE 0
             c4 == IF n >= 4 THEN s[4] ELSE 0
         IN  IF b < 128 THEN IsUtf8(SliceFrom(s, 1))
             ELSE IF b >= 194 /\ b <= 223
                  THEN IsCont(c2) /\ IsUtf8(SliceFrom(s, 2))
             ELSE IF b >= 224 /\ b <= 239
                  THEN /\ IsCont(c2) /\ IsCont(c3)
                       /\ (b = 224 => c2 >= 160)
                       /\ (b = 237 => c2 <= 159)
                       /\ IsUtf8(SliceFrom(s, 3))
             ELSE IF b >= 240 /\ b <= 244
                  THEN /\ IsCont(c2) /\ IsCont(c3) /\ IsCont(c4)
                       /\ (b = 240 => c2 >= 144)
                       /\ (b = 244 => c2 <= 143)
                       /\ IsUtf8(SliceFrom(s, 4))
             ELSE FALSE

RECURSIVE DigitsValue(_, _, _)
\* The checked base-10 accumulation of str::parse: -1 on a byte that is no
\* digit or on a magnitude above limit, else the magnitude.
DigitsValue(s, acc, limit) ==
    IF Len(s) = 0 THEN acc
    ELSE LET b == s[1] IN
         IF b < b_0 \/ b > b_9 THEN -1
         ELSE LET d == b - b_0 IN
              IF acc * 10 + d > limit THEN -1
              ELSE DigitsValue(SliceFrom(s, 1), acc * 10 + d, limit)

ParseOk(v) == [ok |-> TRUE, value |-> v]
ParseErr == [ok |-> FALSE]

\* str::parse::<usize>: an optional '+', then one or more digits (leading
\* zeros allowed); a '-' is an invalid digit for an unsigned type.
parse_usize(s) ==
    IF Len(s) = 0 THEN ParseErr
    ELSE LET digits == IF s[1] = b_plus THEN SliceFrom(s, 1) ELSE s
             m == DigitsValue(digits, 0, UsizeMax)
         IN  IF Len(digits) = 0 \/ m < 0 THEN ParseErr ELSE ParseOk(m)

\* str::parse::<i64>: an optional '+' or '-', then one or more digits
\* (leading zeros allowed, "-0" is 0).
parse_i64(s) ==
    IF Len(s) = 0 THEN ParseErr
    ELSE LET neg == s[1] = b_minus
             digits == IF s[1] = b_plus \/ neg THEN SliceFrom(s, 1) ELSE s
             m == DigitsValue(digits, 0, IF neg THEN I64MinAbs ELSE I64Max)
         IN  IF Len(digits) = 0 \/ m < 0 THEN ParseErr
             ELSE ParseOk(IF neg THEN 0 - m ELSE m)

\* `value as usize` of an i64: two's complement reinterpretation.
as_usize(value) == value % (UsizeMax + 1)

RECURSIVE ScanTo(_, _, _)
\* while i < data.len() && data[i] != stop { i += 1 }
ScanTo(s, stop, i) ==
    IF i < Len(s) /\ s[i + 1] # stop THEN ScanTo(s, stop, i + 1) ELSE i

----------------------------------------------------------------------------
(* The value decoder. *)

RECURSIVE parse_bencode(_)
RECURSIVE parse_bencode_list_loop(_, _)
RECURSIVE parse_bencode_dictionary_loop(_, _)

parse_bencode_string(bytes) ==
    LET i == ScanTo(bytes, b_colon, 0) IN
    IF i = Len(bytes) THEN Err("Invalid BString format")
    ELSE IF ~IsUtf8(SubSeq(bytes, 1, i)) THEN Err("Failed to get len from string")
    ELSE LET p == parse_usize(SubSeq(bytes, 1, i)) IN
         IF ~p.ok THEN Err("Failed to parse len")
         ELSE LET len == p.value
                  sum == i + 1 + len
              IN  IF sum > UsizeMax
                  THEN IF build = "debug"
                       THEN Panic("attempt to add with overflow")
                       ELSE \* release: the sum wraps below i + 1
                            IF sum % (UsizeMax + 1) > Len(bytes)
                            THEN Err("Missing some String bytes")
                            ELSE Panic("slice index starts after its end")
                  ELSE IF sum > Len(bytes) THEN Err("Missing some String bytes")
                  ELSE Ok(SliceFrom(bytes, i + len + 1),
                          BString(SubSeq(bytes, i + 2, i + 1 + len)))

parse_bencode_integer(bytes) ==
    LET i == ScanTo(bytes, b_e, 0) IN
    IF ~IsUtf8(SubSeq(bytes, 1, i)) THEN Err("Invalid utf-8 bytes in num")
    ELSE LET p == parse_i64(SubSeq(bytes, 1, i)) IN
         IF ~p.ok THEN Err("failed to parse num")
         ELSE IF i + 1 > Len(bytes)
              THEN Panic("slice start index out of range")
              ELSE Ok(SliceFrom(bytes, i + 1), BInteger(p.value))

RECURSIVE parse_bencode_list_loop_reversed(_, _)
\* A faulty variant of the list loop: each value is put in front of the
\* items (items.insert(0, value)) instead of pushed at the end.
parse_bencode_list_loop_reversed(rest, items) ==
    IF Len(rest) # 0 /\ rest[1] # b_e
    THEN LET r == parse_bencode(rest) IN
         IF r.tag # "Ok" THEN r
         ELSE parse_bencode_list_loop_reversed(r.rest, <<r.value>> \o items)
    ELSE IF Len(rest) = 0 THEN Err("Unterminated list")
         ELSE Ok(SliceFrom(rest, 1), BList(items))

parse_bencode_list_loop(rest, items) ==
    IF Len(rest) # 0 /\ rest[1] # b_e
    THEN LET r == parse_bencode(rest) IN
         IF r.tag # "Ok" THEN r
         ELSE parse_bencode_list_loop(r.rest, Append(items, r.value))
    ELSE IF Len(rest) = 0 THEN Err("Unterminated list")
         ELSE Ok(SliceFrom(rest, 1), BList(items))

parse_bencode_list(bytes) == parse_bencode_list_loop(bytes, <<>>)

parse_bencode_dictionary_loop(rest, map) ==
    IF Len(rest) # 0 /\ rest[1] # b_e
    THEN LET k == parse_bencode_string(rest) IN
         IF k.tag # "Ok" THEN k
         ELSE IF k.value.type # "String" THEN Err("Dictionary key must be BString")
         ELSE LET r == parse_bencode(k.rest) IN
              IF r.tag # "Ok" THEN r
              ELSE parse_bencode_dictionary_loop(
                       r.rest, MapInsert(map, k.value.content, r.value))
    ELSE IF Len(rest) = 0 THEN Err("Unterminated Dictionary")
         ELSE Ok(SliceFrom(rest, 1), BDictionary(map))

parse_bencode_dictionary(bytes) == parse_bencode_dictionary_loop(bytes, EmptyMap)

parse_bencode(bytes) ==
    IF Len(bytes) = 0 THEN Panic("index out of bounds")
    ELSE LET b == bytes[1] IN
         IF b = b_i THEN parse_bencode_integer(SliceFrom(bytes, 1))
         ELSE IF b = b_l THEN parse_bencode_list(SliceFrom(bytes, 1))
         ELSE IF b = b_d THEN parse_bencode_dictionary(SliceFrom(bytes, 1))
         ELSE IF b >= b_0 /\ b <= b_9 THEN parse_bencode_string(bytes)
         ELSE Err("Invalid bencode data format")

----------------------------------------------------------------------------
(* The metainfo projector. *)

\* Result<Torrent, String> and Result<Info, String> carry no remainder.
OkValue(value) == [tag |-> "Ok", value |-> value]

K_announce == <<97, 110, 110, 111, 117, 110, 99, 101>>
K_info == <<105, 110, 102, 111>>
K_name == <<110, 97, 109, 101>>
K_piece_length == <<112, 105, 101, 99, 101, 32, 108, 101, 110, 103, 116, 104>>
K_pieces == <<112, 105, 101, 99, 101, 115>>
K_length == <<108, 101, 110, 103, 116, 104>>
K_files == <<102, 105, 108, 101, 115>>
K_path == <<112, 97, 116, 104>>

IsSomeOf(opt, type) == opt.some /\ opt.v.type = type

RECURSIVE parse_path_loop(_, _)
\* for item in items { path.push(String::from_utf8(..)?) }
parse_path_loop(items, path) ==
    IF Len(items) = 0 THEN OkValue(path)
    ELSE LET item == items[1] IN
         IF item.type # "String" THEN Err("path item must be a string")
         ELSE IF ~IsUtf8(item.content) THEN Err("Invalid utf-8 bytes in path")
         ELSE parse_path_loop(Tail(items), Append(path, item.content))

\* The path of one file entry: the "path" list, of any length.
parse_file_path(file_info) ==
    LET p == MapGet(file_info, K_path) IN
    IF IsSomeOf(p, "List") THEN parse_path_loop(p.v.items, <<>>)
    ELSE Err("Invalid or Missing fileinfo path")

\* One iteration of `for fileinfo in items`: Ok(FilesInfo) or the early return.
parse_file_info(fileinfo) ==
    IF fileinfo.type # "Dictionary" THEN Err("fileinfo should be a BDictionary")
    ELSE LET l == MapGet(fileinfo.dict, K_length) IN
         IF ~IsSomeOf(l, "Integer") THEN Err("Invalid or MIssing fileinfo length")
         ELSE LET p == parse_file_path(fileinfo.dict) IN
              IF p.tag # "Ok" THEN p
              ELSE OkValue([length |-> as_usize(l.v.value), path |-> p.value])

RECURSIVE parse_files_loop(_, _)
parse_files_loop(items, acc) ==
    IF Len(items) = 0 THEN OkValue(acc)
    ELSE LET f == parse_file_info(items[1]) IN
         IF f.tag # "Ok" THEN f
         ELSE parse_files_loop(Tail(items), Append(acc, f.value))

\* let length = match info.dict.get("length") { .. }
parse_info_length(info) ==
    LET l == MapGet(info, K_length) IN
    IF IsSomeOf(l, "Integer") THEN OkValue(Some(as_usize(l.v.value)))
    ELSE IF ~l.some THEN OkValue(None)
    ELSE Err("Invalid info length")

\* A faulty variant of the files branch: "files" is read whenever the key is
\* there, whether or not a length was found.
parse_info_files_ignoring_length(info, length) ==
    LET f == MapGet(info, K_files) IN
    IF IsSomeOf(f, "List")
    THEN LET r == parse_files_loop(f.v.items, <<>>) IN
         IF r.tag # "Ok" THEN r ELSE OkValue(Some(r.value))
    ELSE IF ~length.some THEN Err("Missing or Invalid info files")
    ELSE OkValue(None)

\* let files = if length.is_none() { .. Some(result) } else { None }
parse_info_files(info, length) ==
    IF ~length.some
    THEN LET f == MapGet(info, K_files) IN
         IF IsSomeOf(f, "List")
         THEN LET r == parse_files_loop(f.v.items, <<>>) IN
              IF r.tag # "Ok" THEN r ELSE OkValue(Some(r.value))
         ELSE Err("Missing or Invalid info files")
    ELSE OkValue(None)

\* let piece_length = match info.dict.get("piece length") { .. }
parse_info_piece_length(info) ==
    LET p == MapGet(info, K_piece_length) IN
    IF IsSomeOf(p, "Integer") THEN OkValue(as_usize(p.v.value))
    ELSE Err("Invalid or Missing info piece length")

parse_torrent_info(info) ==
    LET name == MapGet(info, K_name) IN
    IF ~IsSomeOf(name, "String") THEN Err("Invalid or Missing info name")
    ELSE IF ~IsUtf8(name.v.content) THEN Err("Invalid utf-8 bytes in name")
    ELSE LET piece_length == parse_info_piece_length(info) IN
         IF piece_length.tag # "Ok" THEN piece_length
         ELSE LET pieces == MapGet(info, K_pieces) IN
              IF ~IsSomeOf(pieces, "String") THEN Err("Invalid or Missing pieces info")
              ELSE LET length == parse_info_length(info) IN
                   IF length.tag # "Ok" THEN length
                   ELSE LET files == parse_info_files(info, length.value) IN
                        IF files.tag # "Ok" THEN files
                        ELSE OkValue([name |-> name.v.content,
                                      piece_length |-> piece_length.value,
                                      pieces |-> pieces.v.content,
                                      length |-> length.value,
                                      files |-> files.value])

\* The projection of a root dictionary whose decode left no bytes.
parse_torrent_root(dict) ==
    LET announce == MapGet(dict, K_announce) IN
    IF ~IsSomeOf(announce, "String") THEN Err("Invalid or Missing announce url")
    ELSE IF ~IsUtf8(announce.v.content)
         THEN Panic("called Result::unwrap() on an Err value")
    ELSE LET info == MapGet(dict, K_info) IN
         IF ~IsSomeOf(info, "Dictionary")
         THEN Err("Invalid or Missing torrent info field")
         ELSE LET i == parse_torrent_info(info.v.dict) IN
              IF i.tag # "Ok" THEN i
              ELSE OkValue([announce |-> announce.v.content, info |-> i.value])

\* A faulty variant of parse_torrent: the remainder of the root decode is
\* not looked at.
parse_torrent_keeping_trailing(bytes) ==
    LET r == parse_bencode(bytes) IN
    IF r.tag # "Ok" THEN r
    ELSE IF r.value.type = "Dictionary" THEN parse_torrent_root(r.value.dict)
         ELSE Err("Expected root element to be a BDictionary")

parse_torrent(bytes) ==
    LET r == parse_bencode(bytes) IN
    IF r.tag # "Ok" THEN r
    ELSE IF r.value.type = "Dictionary"
         THEN IF Len(r.rest) # 0 THEN Err("Trailing bytes after root element")
              ELSE parse_torrent_root(r.value.dict)
         ELSE Err("Expected root element to be a BDictionary")

----------------------------------------------------------------------------
(* The decoder applied to inputs assembled from byte chunks. *)

RECURSIVE Digits(_)
\* The decimal numeral of n >= 0, as bytes.
Digits(n) ==
    IF n < 10 THEN <<b_0 + n>> ELSE Append(Digits(n \div 10), b_0 + (n % 10))

\* No call made yet.
NoResult == [tag |-> "None"]

\* The chunks an input is assembled from: the grammar's bytes and a few
\* complete elements.
Tokens ==
    { <<b_i>>, <<b_l>>, <<b_d>>, <<b_e>>, <<b_colon>>, <<b_plus>>, <<b_minus>>,
      <<48>>, <<51>>, <<97>>, <<255>>,
      <<49, b_colon, 97>>,                  \* 1:a
      <<b_i, 51, b_e>>,                     \* i3e
      Digits(UsizeMax) \o <<b_colon>> }     \* the largest usize, then ':'

Init ==
    /\ data = <<>>
    /\ toks = <<>>
    /\ build \in Builds
    /\ pc = "input"
    /\ result = NoResult

Feed(t) ==
    /\ pc = "input"
    /\ Len(toks) < MaxTokens
    /\ toks' = Append(toks, t)
    /\ data' = data \o t
    /\ UNCHANGED <<build, pc, result>>

CallParseBencode ==
    /\ pc = "input"
    /\ result' = parse_bencode(data)
    /\ pc' = "done"
    /\ UNCHANGED <<data, toks, build>>

CallParseBencodeString ==
    /\ pc = "input"
    /\ result' = parse_bencode_string(data)
    /\ pc' = "done_string"
    /\ UNCHANGED <<data, toks, build>>

Next ==
    \/ \E t \in Tokens : Feed(t)
    \/ CallParseBencode
    \/ CallParseBencodeString

Spec == Init /\ [][Next]_vars

----------------------------------------------------------------------------
(* The projector applied to generated metainfo documents.  Every document  *)
(* is a grammatically well-formed dictionary, with each schema field       *)
(* absent, well-typed or ill-typed, optionally followed by trailing bytes. *)

\* The byte-string element holding s.
EncStr(s) == Digits(Len(s)) \o <<b_colon>> \o s
\* A dictionary entry: the key, then the already encoded value.
Entry(key, enc) == EncStr(key) \o enc
\* A field that may be absent.
Optional(key, encs) == {<<>>} \cup {Entry(key, e) : e \in encs}

E_int1 == <<b_i, 49, b_e>>                  \* i1e
E_strx == <<49, b_colon, 120>>              \* 1:x
E_bad_utf8 == <<49, b_colon, 255>>          \* a one-byte string, 0xFF

PathEncs ==
    { <<b_l, b_e>>,                                             \* le
      <<b_l>> \o EncStr(<<112>>) \o <<b_e>>,                    \* l1:pe
      <<b_l>> \o EncStr(<<112>>) \o EncStr(<<113>>) \o <<b_e>>, \* l1:p1:qe
      <<b_l>> \o E_bad_utf8 \o <<b_e>>,
      <<b_l>> \o E_int1 \o <<b_e>>,                             \* li1ee
      E_strx }

FileEncs ==
    { <<b_d>> \o l \o p \o <<b_e>> :
        l \in Optional(K_length, {<<b_i, 52, b_e>>, E_strx}),
        p \in Optional(K_path, PathEncs) }

GoodFile == <<b_d>> \o Entry(K_length, <<b_i, 52, b_e>>)
                \o Entry(K_path, <<b_l>> \o EncStr(<<112>>) \o <<b_e>>) \o <<b_e>>

EmptyPathFile == <<b_d>> \o Entry(K_length, <<b_i, 52, b_e>>)
                    \o Entry(K_path, <<b_l, b_e>>) \o <<b_e>>

FilesEncs ==
    { <<b_l, b_e>>, E_int1, <<b_l>> \o E_int1 \o <<b_e>> }
    \cup { <<b_l>> \o f \o <<b_e>> : f \in FileEncs }
    \cup { <<b_l>> \o GoodFile \o f \o <<b_e>> : f \in {GoodFile, EmptyPathFile} }

InfoEnc(f, l, n, pl, p) == <<b_d>> \o f \o l \o n \o pl \o p \o <<b_e>>

\* Every combination of "length" and "files" under a well-typed name and
\* pieces, and every combination of name, piece length and pieces under a
\* well-formed single-file or multi-file layout.
InfoEncs ==
    { InfoEnc(f, l, Entry(K_name, EncStr(<<110>>)), pl, Entry(K_pieces, <<b_0, b_colon>>)) :
        f \in Optional(K_files, FilesEncs),
        l \in Optional(K_length, {<<b_i, 53, b_e>>, <<b_i, b_minus, 49, b_e>>, E_strx}),
        pl \in Optional(K_piece_length,
                        {<<b_i, 50, b_e>>, <<b_i, b_0, b_e>>, <<b_i, b_minus, 49, b_e>>}) }
    \cup
    { InfoEnc(fl[1], fl[2], n, pl, p) :
        fl \in { <<<<>>, Entry(K_length, <<b_i, 53, b_e>>)>>,
                 <<Entry(K_files, <<b_l>> \o GoodFile \o <<b_e>>), <<>>>> },
        n \in Optional(K_name, {EncStr(<<110>>), E_bad_utf8, E_int1}),
        pl \in Optional(K_piece_length,
                        {<<b_i, 50, b_e>>, <<b_i, b_0, b_e>>,
                         <<b_i, b_minus, 49, b_e>>, E_strx}),
        p \in Optional(K_pieces, {<<b_0, b_colon>>, E_int1}) }

RootEncs ==
    { <<b_d>> \o a \o i \o <<b_e>> :
        a \in Optional(K_announce, {EncStr(<<117>>), E_bad_utf8, E_int1}),
        i \in Optional(K_info, {E_int1} \cup InfoEncs) }

Trailing == { <<>>, <<b_e>>, E_int1 }

InitTorrent ==
    /\ \E root \in RootEncs \cup InfoEncs : \E t \in Trailing :
          /\ toks = <<root, t>>
          /\ data = root \o t
    /\ build \in Builds
    /\ pc = "input"
    /\ result = NoResult

CallParseTorrent ==
    /\ pc = "input"
    /\ result' = parse_torrent(data)
    /\ pc' = "done_torrent"
    /\ UNCHANGED <<data, toks, build>>

\* parse_torrent_info applied to whatever dictionary the input decodes to.
CallParseTorrentInfo ==
    /\ pc = "input"
    /\ LET r == parse_bencode(data) IN
          /\ r.tag = "Ok"
          /\ r.value.type = "Dictionary"
          /\ result' = parse_torrent_info(r.value.dict)
    /\ pc' = "done_info"
    /\ UNCHANGED <<data, toks, build>>

NextTorrent ==
    \/ CallParseTorrent
    \/ CallParseTorrentInfo

SpecTorrent == InitTorrent /\ [][NextTorrent]_vars

----------------------------------------------------------------------------
(* The decoder applied to generated lists: 'l', the encodings of chosen    *)
(* values, then either a closing 'e' and trailing bytes, or nothing.       *)

RECURSIVE Enc(_)
RECURSIVE EncAll(_)
RECURSIVE EncEntries(_)

\* The bencoding of a value, as the type documentation defines it.  (The
\* dictionaries encoded here hold at most one key, so the order of the keys
\* does not arise.)
Enc(v) ==
    IF v.type = "String" THEN EncStr(v.content)
    ELSE IF v.type = "Integer"
         THEN <<b_i>> \o (IF v.value < 0 THEN <<b_minus>> \o Digits(0 - v.value)
                          ELSE Digits(v.value)) \o <<b_e>>
    ELSE IF v.type = "List" THEN <<b_l>> \o EncAll(v.items) \o <<b_e>>
    ELSE <<b_d>> \o EncEntries(v.dict) \o <<b_e>>

EncAll(items) ==
    IF Len(items) = 0 THEN <<>> ELSE Enc(items[1]) \o EncAll(Tail(items))

EncEntries(dict) ==
    IF DOMAIN dict = {} THEN <<>>
    ELSE LET k == CHOOSE x \in DOMAIN dict : TRUE IN
         Entry(k, Enc(dict[k]))
             \o EncEntries([x \in (DOMAIN dict) \ {k} |-> dict[x]])

\* The values a generated list is made of.
ElementPool ==
    { BString(<<97>>), BString(<<>>), BString(<<b_e, b_e>>),
      BInteger(3), BInteger(-3), BInteger(0),
      BList(<<>>), BList(<<BString(<<97>>), BInteger(3)>>),
      BDictionary(EmptyMap),
      BDictionary(MapInsert(EmptyMap, <<97>>, BInteger(3))) }

\* The bytes that may follow the closing 'e'.
ListTails == { <<>>, <<b_e>>, <<b_i>>, <<255>>, <<49, b_colon, 97>> }

InitList ==
    /\ data = <<b_l>>
    /\ toks = <<>>
    /\ build \in Builds
    /\ pc = "elems"
    /\ result = NoResult

AddElement(v) ==
    /\ pc = "elems"
    /\ Len(toks) < MaxElems
    /\ toks' = Append(toks, v)
    /\ data' = data \o Enc(v)
    /\ UNCHANGED <<build, pc, result>>

CloseList(tail) ==
    /\ pc = "elems"
    /\ data' = data \o <<b_e>> \o tail
    /\ pc' = "closed"
    /\ UNCHANGED <<toks, build, result>>

LeaveOpen ==
    /\ pc = "elems"
    /\ pc' = "open"
    /\ UNCHANGED <<data, toks, build, result>>

CallParseList ==
    /\ pc \in {"closed", "open"}
    /\ result' = parse_bencode(data)
    /\ pc' = IF pc = "closed" THEN "done_closed" ELSE "done_open"
    /\ UNCHANGED <<data, toks, build>>

NextList ==
    \/ \E v \in ElementPool : AddElement(v)
    \/ \E tail \in ListTails : CloseList(tail)
    \/ LeaveOpen
    \/ CallParseList

SpecList == InitList /\ [][NextList]_vars

----------------------------------------------------------------------------
(* Properties of the value decoder, checked under Spec and SpecList. *)

IsDigit(b) == b >= b_0 /\ b <= b_9

\* C1: parse_bencode ends, for every input, by returning Ok or Err; it never
\* aborts on an out-of-range index or slice.
C1_NeverAborts ==
    pc = "done" => result.tag \in {"Ok", "Err"}

\* C5: for an input that starts with a digit, parse_bencode_string returns
\* Err when there is no ':', when the bytes before ':' are no non-negative
\* decimal length, or when fewer than the declared number of bytes follow
\* the ':' (however large the declared length); when it returns Ok, the
\* content is exactly the declared number of bytes after ':' and the
\* remainder exactly the bytes after the content.
C5_StringContract ==
    (pc = "done_string" /\ Len(data) > 0 /\ IsDigit(data[1])) =>
        LET i == ScanTo(data, b_colon, 0)
            avail == Len(data) - i - 1
            \* the declared length, or -1 when it is no decimal numeral or
            \* exceeds the bytes that follow
            declared == DigitsValue(SubSeq(data, 1, i), 0, avail)
        IN  IF i = Len(data) \/ declared < 0
            THEN result.tag = "Err"
            ELSE result = Ok(SubSeq(data, i + 2 + declared, Len(data)),
                             BString(SubSeq(data, i + 2, i + 1 + declared)))

\* C6: non-canonical integer encodings are invalid: "i-0e" and every numeral
\* with a leading zero (such as "i03e") give Err, while "i0e", "i3e" and
\* "i-3e" give Ok with the values 0, 3 and -3.
C6_CanonicalIntegers ==
    (pc = "done" /\ Len(data) > 0 /\ data[1] = b_i) =>
        LET body == SliceFrom(data, 1)
            i == ScanTo(body, b_e, 0)
            numeral == SubSeq(body, 1, i)
            after == SliceFrom(body, i + 1)
        IN  i < Len(body) =>
              /\ numeral = <<b_minus, 48>> => result.tag = "Err"
              /\ (Len(numeral) >= 2 /\ numeral[1] = 48) => result.tag = "Err"
              /\ numeral = <<48>> => result = Ok(after, BInteger(0))
              /\ numeral = <<51>> => result = Ok(after, BInteger(3))
              /\ numeral = <<b_minus, 51>> => result = Ok(after, BInteger(-3))

\* C9: a dictionary is decoded successfully only if each key is a byte-string
\* element the top-level dispatch would accept, one whose first byte is a
\* digit; stated for the first key position: a dictionary whose first key
\* position holds any byte other than a digit is not decoded successfully.
C9_KeysStartWithDigit ==
    (pc = "done" /\ Len(data) >= 2 /\ data[1] = b_d /\ result.tag = "Ok") =>
        (data[2] = b_e \/ IsDigit(data[2]))

\* The bytes after the closing 'e' of a generated list.
TailOfList == SubSeq(data, Len(EncAll(toks)) + 3, Len(data))

\* C10: for an input made of 'l', n >= 0 well-formed elements and a closing
\* 'e', parse_bencode returns the List of the decoded elements in input order
\* (none dropped, duplicated or reordered) and, as the remainder, exactly the
\* bytes after that 'e'; when the buffer ends after the elements, with no
\* closing 'e', it returns Err (unterminated list).
C10_ListInOrder ==
    /\ pc = "done_closed" => result = Ok(TailOfList, BList(toks))
    /\ pc = "done_open" => result = Err("Unterminated list")

\* C10's case: a list of at least two different elements, followed by bytes.
C10_Witness ==
    /\ pc = "done_closed"
    /\ Len(toks) >= 2
    /\ toks[1] # toks[2]
    /\ Len(TailOfList) > 0
    /\ result.tag = "Ok"
    /\ Len(result.value.items) = Len(toks)

----------------------------------------------------------------------------
(* Properties of the metainfo projector, checked under SpecTorrent. *)

\* The decoded root of the input.
Root == parse_bencode(data)

\* The decoded dictionary that parse_torrent_info is given.
InfoDict ==
    IF pc = "done_torrent" THEN Root.value.dict[K_info].dict ELSE Root.value.dict

\* The Info of an Ok result.
InfoOf == IF pc = "done_torrent" THEN result.value.info ELSE result.value

\* C2: when the root decodes to a dictionary with no trailing bytes and
\* "announce" is missing, is no byte string or is not valid UTF-8, or "info"
\* is missing or is no dictionary, parse_torrent returns Err: it neither
\* aborts nor returns a Torrent.
C2_SchemaFailuresReported ==
    (/\ pc = "done_torrent"
     /\ Root.tag = "Ok"
     /\ Root.value.type = "Dictionary"
     /\ Len(Root.rest) = 0) =>
        LET announce == MapGet(Root.value.dict, K_announce)
            info == MapGet(Root.value.dict, K_info)
        IN  (\/ ~IsSomeOf(announce, "String")
             \/ ~IsUtf8(announce.v.content)
             \/ ~IsSomeOf(info, "Dictionary")) => result.tag = "Err"

\* C3: every Info returned Ok has exactly one of length and files: an Integer
\* "length" gives length = Some and files = None even when "files" is present
\* too, and an absent "length" gives length = None and files = Some.
C3_LengthXorFiles ==
    (pc \in {"done_torrent", "done_info"} /\ result.tag = "Ok") =>
        LET l == MapGet(InfoDict, K_length) IN
        /\ InfoOf.length.some # InfoOf.files.some
        /\ IsSomeOf(l, "Integer") => (InfoOf.length.some /\ ~InfoOf.files.some)
        /\ ~l.some => (~InfoOf.length.some /\ InfoOf.files.some)

\* C3's case: an info dictionary holding both "length" and "files" is
\* projected to a Torrent.
C3_Witness ==
    /\ pc = "done_torrent"
    /\ result.tag = "Ok"
    /\ {K_length, K_files} \subseteq DOMAIN InfoDict
    /\ InfoOf.length.some

\* C4: a well-formed root dictionary followed by one or more extra bytes
\* makes parse_torrent return Err (trailing data), whatever the dictionary
\* contains; Ok is returned only when the root consumes the whole input.
C4_TrailingDataRejected ==
    pc = "done_torrent" =>
        /\ Len(toks[2]) > 0 => result = Err("Trailing bytes after root element")
        /\ result.tag = "Ok" => data = toks[1]

\* C4's case: a document that projects to a Torrent on its own is rejected
\* once bytes follow it.
C4_Witness ==
    /\ pc = "done_torrent"
    /\ Len(toks[2]) > 0
    /\ parse_torrent(toks[1]).tag = "Ok"
    /\ result.tag = "Err"

\* C7: in every Torrent returned Ok, info.piece_length is positive and equals
\* the Integer stored under "piece length"; a zero or negative "piece length"
\* never yields an Ok Torrent carrying another number.
C7_PieceLengthPositive ==
    (pc = "done_torrent" /\ result.tag = "Ok") =>
        /\ InfoOf.piece_length > 0
        /\ InfoOf.piece_length = InfoDict[K_piece_length].value

\* C8: in every Torrent returned Ok in the multi-file case, every FilesInfo
\* has a non-empty path list.
C8_PathsNonEmpty ==
    (pc = "done_torrent" /\ result.tag = "Ok" /\ InfoOf.files.some) =>
        \A k \in 1..Len(InfoOf.files.v) : Len(InfoOf.files.v[k].path) > 0

====
